---- MODULE Spec2Model ----
(***************************************************************************)
(* Jira API proxy (kost0806/jira-proxy-for-jetbrains-tasks).               *)
(*                                                                         *)
(* An inbound request is followed from the router handler                  *)
(* (app/routers/latest_api.py) through the Jira client                     *)
(* (app/services/jira_client.py) and its upstream calls to the response    *)
(* rendered by the exception handlers (app/error_handlers.py) and sent     *)
(* through the middleware (app/middleware.py).  An action covers the code  *)
(* that runs between two awaits of the handler's task.  The variables      *)
(* from pc to completed are the locals of the task the event loop is       *)
(* running; `parked` holds the locals of a second task, and Switch is the  *)
(* event loop resuming the other task.                                     *)
(*                                                                         *)
(* Strings whose content matters (credentials, Authorization values) are   *)
(* sequences of ASCII codes; other strings are TLA+ strings.               *)
(***************************************************************************)
EXTENDS Integers, Sequences, FiniteSets, TLC

VARIABLES
    settings,     \* app.config.settings: base URL and service-account credentials
    jira_client,  \* the process-wide JiraClient instance
    pc,           \* "idle" | "await" (an upstream call is in flight) | "done"
    request,      \* the inbound request being handled
    inflight,     \* the upstream call the task is awaiting
    calls,        \* the upstream calls issued for this request, in order
    upstream,     \* the outcome of the latest upstream call
    raised,       \* what the latest _make_request raised (or that it returned)
    page,         \* search_issues: `issues`, the page upstream returned
    idx,          \* search_issues: position of the stub being fetched
    full_issues,  \* search_issues: `full_issues`
    caught,       \* the exception the handler's except clause caught
    result,       \* the value the client method returned to the handler
    response,     \* the HTTP response of the proxy
    response_headers, \* the names of the headers the sent response carries
    completed,    \* how many upstream calls of the request have ended
    parked,       \* the locals of the task that is not running
    header_value,  \* extract_username_from_auth_header: its argument
    extracted      \* extract_username_from_auth_header: what the call ended in

vars == <<settings, jira_client, pc, request, inflight, calls, upstream, raised,
          page, idx, full_issues, caught, result, response, response_headers,
          completed, parked, header_value, extracted>>

(***************************************************************************)
(* Bounds                                                                  *)
(***************************************************************************)
\* Longest page of issues the upstream search returns.
MaxIssues == 2

\* Longest credentials part of the Basic headers handed to
\* extract_username_from_auth_header, in characters.
MaxPayload == 4

(***************************************************************************)
(* Strings as ASCII                                                        *)
(***************************************************************************)
Colon == <<58>>
BasicPrefix == <<66, 97, 115, 105, 99, 32>>                   \* "Basic "
BearerPrefix == <<66, 101, 97, 114, 101, 114, 32>>            \* "Bearer "
svc == <<115, 118, 99>>                                       \* "svc"
tok == <<116, 111, 107>>                                      \* "tok"
alice == <<97, 108, 105, 99, 101>>                            \* "alice"
secret == <<115, 101, 99, 114, 101, 116>>                     \* "secret"
abc123 == <<97, 98, 99, 49, 50, 51>>                          \* "abc123"

\* The base64 alphabet: the character that stands for the 6-bit value v.
B64Char(v) ==
    IF v < 26 THEN 65 + v
    ELSE IF v < 52 THEN 97 + (v - 26)
    ELSE IF v < 62 THEN 48 + (v - 52)
    ELSE IF v = 62 THEN 43
    ELSE 47

\* base64.b64encode: three bytes become four characters, the tail is padded
\* with "=".
RECURSIVE B64Encode(_)
B64Encode(b) ==
    IF Len(b) = 0 THEN <<>>
    ELSE IF Len(b) = 1 THEN
        <<B64Char(b[1] \div 4), B64Char((b[1] % 4) * 16), 61, 61>>
    ELSE IF Len(b) = 2 THEN
        <<B64Char(b[1] \div 4),
          B64Char((b[1] % 4) * 16 + (b[2] \div 16)),
          B64Char((b[2] % 16) * 4), 61>>
    ELSE
        <<B64Char(b[1] \div 4),
          B64Char((b[1] % 4) * 16 + (b[2] \div 16)),
          B64Char((b[2] % 16) * 4 + (b[3] \div 64)),
          B64Char(b[3] % 64)>> \o B64Encode(SubSeq(b, 4, Len(b)))

\* app.utils.create_service_auth_header
create_service_auth_header(username, api_token) ==
    BasicPrefix \o B64Encode(username \o Colon \o api_token)

\* str.startswith
StartsWith(s, prefix) ==
    Len(s) >= Len(prefix) /\ SubSeq(s, 1, Len(prefix)) = prefix

\* str.replace(old, ""): every occurrence of old is removed, left to right.
RECURSIVE Remove(_, _)
Remove(s, old) ==
    IF Len(s) < Len(old) THEN s
    ELSE IF SubSeq(s, 1, Len(old)) = old
    THEN Remove(SubSeq(s, Len(old) + 1, Len(s)), old)
    ELSE <<s[1]>> \o Remove(Tail(s), old)

\* The ASCII characters str.strip() takes for whitespace.
Whitespace == {9, 10, 11, 12, 13, 28, 29, 30, 31, 32}

\* str.strip()
RECURSIVE Strip(_)
Strip(s) ==
    IF Len(s) > 0 /\ s[1] \in Whitespace THEN Strip(Tail(s))
    ELSE IF Len(s) > 0 /\ s[Len(s)] \in Whitespace
    THEN Strip(SubSeq(s, 1, Len(s) - 1))
    ELSE s

\* The 6-bit value a character of the base64 alphabet stands for; 64 for
\* any other character.
B64Value(c) ==
    IF c \in 65..90 THEN c - 65
    ELSE IF c \in 97..122 THEN c - 71
    ELSE IF c \in 48..57 THEN c + 4
    ELSE IF c = 43 THEN 62
    ELSE IF c = 47 THEN 63
    ELSE 64

\* What a decoding step ends in: the decoded value, or an exception.
Decoded(value) == [ok |-> TRUE, value |-> value]
DecodeError == [ok |-> FALSE, value |-> <<>>]

\* binascii.a2b_base64, not strict, from position i of s on: characters
\* outside the alphabet are skipped, a padding that completes a group of
\* four ends the decoding, and an incomplete last group is an error.
RECURSIVE a2b_base64(_, _, _, _, _, _)
a2b_base64(s, i, quad_pos, leftchar, pads, out) ==
    IF i > Len(s)
    THEN IF quad_pos = 0 THEN Decoded(out) ELSE DecodeError
    ELSE IF s[i] = 61
    THEN IF quad_pos >= 2 /\ quad_pos + pads + 1 >= 4
         THEN Decoded(out)
         ELSE a2b_base64(s, i + 1, quad_pos, leftchar,
                         IF quad_pos >= 2 THEN pads + 1 ELSE pads, out)
    ELSE IF B64Value(s[i]) = 64
    THEN a2b_base64(s, i + 1, quad_pos, leftchar, pads, out)
    ELSE LET v == B64Value(s[i])
         IN  IF quad_pos = 0 THEN a2b_base64(s, i + 1, 1, v, 0, out)
             ELSE IF quad_pos = 1
             THEN a2b_base64(s, i + 1, 2, v % 16, 0,
                             Append(out, leftchar * 4 + (v \div 16)))
             ELSE IF quad_pos = 2
             THEN a2b_base64(s, i + 1, 3, v % 4, 0,
                             Append(out, leftchar * 16 + (v \div 4)))
             ELSE a2b_base64(s, i + 1, 0, 0, 0, Append(out, leftchar * 64 + v))

\* base64.b64decode of a str: the str must be ASCII.
b64decode(s) ==
    IF \E i \in 1..Len(s) : s[i] >= 128 THEN DecodeError
    ELSE a2b_base64(s, 1, 0, 0, 0, <<>>)

\* A byte that continues a UTF-8 sequence.
Continuation(b) == b \in 128..191

\* The bytes are well-formed UTF-8.
RECURSIVE Utf8Valid(_)
Utf8Valid(b) ==
    IF Len(b) = 0 THEN TRUE
    ELSE IF b[1] < 128 THEN Utf8Valid(Tail(b))
    ELSE IF b[1] \in 194..223
    THEN Len(b) >= 2 /\ Continuation(b[2]) /\ Utf8Valid(SubSeq(b, 3, Len(b)))
    ELSE IF b[1] \in 224..239
    THEN /\ Len(b) >= 3
         /\ Continuation(b[2])
         /\ Continuation(b[3])
         /\ (b[1] = 224 => b[2] >= 160)
         /\ (b[1] = 237 => b[2] <= 159)
         /\ Utf8Valid(SubSeq(b, 4, Len(b)))
    ELSE IF b[1] \in 240..244
    THEN /\ Len(b) >= 4
         /\ Continuation(b[2])
         /\ Continuation(b[3])
         /\ Continuation(b[4])
         /\ (b[1] = 240 => b[2] >= 144)
         /\ (b[1] = 244 => b[2] <= 143)
         /\ Utf8Valid(SubSeq(b, 5, Len(b)))
    ELSE FALSE

\* bytes.decode("utf-8"): a str is kept as the bytes of its UTF-8 form, so
\* that decoding is the test that the bytes are one.
utf8_decode(b) == IF Utf8Valid(b) THEN Decoded(b) ELSE DecodeError

\* `":" in s`
HasColon(s) == \E i \in 1..Len(s) : s[i] = 58

\* s.split(":", 1)[0]
RECURSIVE BeforeColon(_)
BeforeColon(s) ==
    IF Len(s) = 0 \/ s[1] = 58 THEN <<>>
    ELSE <<s[1]>> \o BeforeColon(Tail(s))

\* What a call of extract_username_from_auth_header ends in: a str, None,
\* or an exception leaving the function.
NotCalled == [kind |-> "not called", value |-> <<>>]
NoUsername == [kind |-> "None", value |-> <<>>]
Username(u) == [kind |-> "str", value |-> u]
Raises == [kind |-> "raised", value |-> <<>>]

\* extract_username_from_auth_header without its try/except: a decoding
\* error leaves the function.
ExtractUsernameNoExcept(authorization) ==
    IF Len(authorization) = 0 THEN NoUsername
    ELSE IF StartsWith(authorization, BasicPrefix)
    THEN LET encoded_credentials == Strip(Remove(authorization, BasicPrefix))
             bytes == b64decode(encoded_credentials)
             decoded_credentials ==
                IF bytes.ok THEN utf8_decode(bytes.value) ELSE DecodeError
         IN  IF ~decoded_credentials.ok THEN Raises
             ELSE IF HasColon(decoded_credentials.value)
             THEN Username(BeforeColon(decoded_credentials.value))
             ELSE NoUsername
    ELSE NoUsername

\* app.utils.extract_username_from_auth_header: `except Exception` returns
\* None for whatever the decoding raised.
ExtractUsername(authorization) ==
    IF Len(authorization) = 0 THEN NoUsername
    ELSE IF StartsWith(authorization, BasicPrefix)
    THEN LET encoded_credentials == Strip(Remove(authorization, BasicPrefix))
             bytes == b64decode(encoded_credentials)
             decoded_credentials ==
                IF bytes.ok THEN utf8_decode(bytes.value) ELSE DecodeError
         IN  IF ~decoded_credentials.ok THEN NoUsername
             ELSE IF HasColon(decoded_credentials.value)
             THEN Username(BeforeColon(decoded_credentials.value))
             ELSE NoUsername
    ELSE IF StartsWith(authorization, BearerPrefix) THEN NoUsername
    ELSE NoUsername

(***************************************************************************)
(* Configuration                                                           *)
(***************************************************************************)
\* Settings.jira_service_username / jira_service_api_token: "" by default.
\* "https://jira/"
JiraBaseUrl == <<104, 116, 116, 112, 115, 58, 47, 47, 106, 105, 114, 97, 47>>

Settings ==
    [jira_base_url : {JiraBaseUrl},
     jira_service_username : {<<>>, svc}, jira_service_api_token : {<<>>, tok}]

\* str.rstrip('/')
RECURSIVE RStripSlash(_)
RStripSlash(s) ==
    IF Len(s) > 0 /\ s[Len(s)] = 47
    THEN RStripSlash(SubSeq(s, 1, Len(s) - 1))
    ELSE s

\* JiraClient.__init__
JiraClient(cfg) == [base_url |-> RStripSlash(cfg.jira_base_url)]

(***************************************************************************)
(* Upstream call construction                                              *)
(***************************************************************************)
NoUser == <<>>

\* _create_headers setting the impersonation header whether or not an
\* acting user is given.
CreateHeadersAlwaysUser(cfg, acting_user) ==
    LET auth_header ==
            IF Len(cfg.jira_service_username) > 0
               /\ Len(cfg.jira_service_api_token) > 0
            THEN create_service_auth_header(cfg.jira_service_username,
                                            cfg.jira_service_api_token)
            ELSE BasicPrefix
        names == {"Authorization", "Content-Type", "Accept", "X-Atlassian-User"}
    IN  [h \in names |->
            IF h = "Authorization" THEN auth_header
            ELSE IF h = "X-Atlassian-User" THEN acting_user
            ELSE "application/json"]

\* JiraClient._create_headers
CreateHeaders(cfg, acting_user) ==
    LET auth_header ==
            IF Len(cfg.jira_service_username) > 0
               /\ Len(cfg.jira_service_api_token) > 0
            THEN create_service_auth_header(cfg.jira_service_username,
                                            cfg.jira_service_api_token)
            ELSE BasicPrefix
        names == {"Authorization", "Content-Type", "Accept"}
                    \cup (IF Len(acting_user) > 0 THEN {"X-Atlassian-User"} ELSE {})
    IN  [h \in names |->
            IF h = "Authorization" THEN auth_header
            ELSE IF h = "X-Atlassian-User" THEN acting_user
            ELSE "application/json"]

\* _make_request forwarding the caller's Authorization value upstream in
\* place of the service-account one.
UpstreamCallPassthrough(cfg, method, path, authorization, acting_user, stub) ==
    [method |-> method, base_url |-> jira_client.base_url, path |-> path,
     headers |-> [CreateHeaders(cfg, acting_user) EXCEPT !["Authorization"] = authorization],
     stub |-> stub]

\* JiraClient._make_request, up to the call: the request handed to httpx.
\* `authorization` is the handler's argument, which is received and not
\* used.  `stub` is the position of the stub a secondary fetch is for (0
\* otherwise).
UpstreamCall(cfg, method, path, authorization, acting_user, stub) ==
    [method |-> method, base_url |-> jira_client.base_url, path |-> path,
     headers |-> CreateHeaders(cfg, acting_user), stub |-> stub]
NoCall ==
    [method |-> "none", base_url |-> <<>>, path |-> "none", headers |-> <<>>,
     stub |-> 0]

(***************************************************************************)
(* Error taxonomy (app/exceptions.py)                                      *)
(***************************************************************************)
JiraConnectionError(message) ==
    [class |-> "JiraConnectionError", status_code |-> 503, message |-> message]
JiraAuthenticationError(message) ==
    [class |-> "JiraAuthenticationError", status_code |-> 401, message |-> message]
JiraNotFoundError(message) ==
    [class |-> "JiraNotFoundError", status_code |-> 404, message |-> message]
JiraPermissionError(message) ==
    [class |-> "JiraPermissionError", status_code |-> 403, message |-> message]
JiraValidationError(message) ==
    [class |-> "JiraValidationError", status_code |-> 400, message |-> message]
\* httpx.HTTPStatusError, re-raised as it came.
HTTPStatusError(code) ==
    [class |-> "HTTPStatusError", status_code |-> code, message |-> "raw"]
\* fastapi.HTTPException
HTTPException(code, detail) ==
    [class |-> "HTTPException", status_code |-> code, message |-> detail]
\* pydantic.ValidationError: a response model rejected the data.
ModelValidationError ==
    [class |-> "ValidationError", status_code |-> 0, message |-> "model"]
Returned == [class |-> "return", status_code |-> 0, message |-> ""]
NoError == [class |-> "none", status_code |-> 0, message |-> ""]

JiraProxyExceptions ==
    {"JiraConnectionError", "JiraAuthenticationError", "JiraNotFoundError",
     "JiraPermissionError", "JiraValidationError"}

(***************************************************************************)
(* Upstream outcomes                                                       *)
(***************************************************************************)
\* Non-2xx statuses the upstream answers with.
ErrorStatuses == {400, 401, 403, 404, 429, 500}

\* What one upstream call can end in: a transport failure, another
\* exception, a non-2xx status, or a 2xx with a JSON body or an empty body.
Failures ==
    [kind : {"ConnectError", "TimeoutException", "Exception"}, code : {0},
     body : {"none"}]
    \cup [kind : {"status"}, code : ErrorStatuses, body : {"error"}]
Successes ==
    [kind : {"status"}, code : {200}, body : {"conforming", "nonconforming"}]
    \cup [kind : {"status"}, code : {204}, body : {"empty"}]
Outcomes == Failures \cup Successes
NoOutcome == [kind |-> "none", code |-> 0, body |-> "none"]

Is2xx(o) == o.kind = "status" /\ o.code >= 200 /\ o.code < 300

\* _make_request with the 403 and 404 branches swapped.
MakeRequestSwapped(o) ==
    IF o.kind = "ConnectError" THEN JiraConnectionError("connect")
    ELSE IF o.kind = "TimeoutException" THEN JiraConnectionError("timeout")
    ELSE IF o.kind = "status" /\ ~Is2xx(o) THEN
        IF o.code = 401 THEN JiraAuthenticationError("Invalid Jira credentials")
        ELSE IF o.code = 404 THEN JiraPermissionError("Insufficient permissions for Jira operation")
        ELSE IF o.code = 403 THEN JiraNotFoundError("Jira resource not found")
        ELSE IF o.code = 400 THEN JiraValidationError("Invalid request to Jira API")
        ELSE HTTPStatusError(o.code)
    ELSE IF o.kind = "Exception" \/ o.body = "empty"
        THEN JiraConnectionError("unexpected")
    ELSE Returned

\* _make_request whose last `except Exception` clause is missing: the
\* exception leaves the executor as it is.
MakeRequestNoCatchAll(o) ==
    IF o.kind = "ConnectError" THEN JiraConnectionError("connect")
    ELSE IF o.kind = "TimeoutException" THEN JiraConnectionError("timeout")
    ELSE IF o.kind = "status" /\ ~Is2xx(o) THEN
        IF o.code = 401 THEN JiraAuthenticationError("Invalid Jira credentials")
        ELSE IF o.code = 403 THEN JiraPermissionError("Insufficient permissions for Jira operation")
        ELSE IF o.code = 404 THEN JiraNotFoundError("Jira resource not found")
        ELSE IF o.code = 400 THEN JiraValidationError("Invalid request to Jira API")
        ELSE HTTPStatusError(o.code)
    ELSE IF o.kind = "Exception" \/ o.body = "empty"
        THEN [class |-> "Exception", status_code |-> 0, message |-> "unexpected"]
    ELSE Returned

\* JiraClient._make_request, the try block: what the call raises for the
\* outcome o, or that it returns.  response.json() raises on an empty body,
\* which the last except clause catches like any other exception.
MakeRequest(o) ==
    IF o.kind = "ConnectError" THEN JiraConnectionError("connect")
    ELSE IF o.kind = "TimeoutException" THEN JiraConnectionError("timeout")
    ELSE IF o.kind = "status" /\ ~Is2xx(o) THEN
        IF o.code = 401 THEN JiraAuthenticationError("Invalid Jira credentials")
        ELSE IF o.code = 403 THEN JiraPermissionError("Insufficient permissions for Jira operation")
        ELSE IF o.code = 404 THEN JiraNotFoundError("Jira resource not found")
        ELSE IF o.code = 400 THEN JiraValidationError("Invalid request to Jira API")
        ELSE HTTPStatusError(o.code)
    ELSE IF o.kind = "Exception" \/ o.body = "empty"
        THEN JiraConnectionError("unexpected")
    ELSE Returned

(***************************************************************************)
(* Response models (app/models/jira.py)                                    *)
(***************************************************************************)
\* An issue object as upstream sends it: whether it has `id`, what its `key`
\* is (absent, the empty string, or a key), and its `fields` bag (absent,
\* holding only fields the Fields model declares, or holding others too).
\* n is the object's position in the upstream page and stands for the rest
\* of its content.  Every issue object carries `self`.
IssueShapes == [id : BOOLEAN, key : {"absent", "empty", "set"},
                fields : {"absent", "declared", "extra"}]

IssueAt(n, shape) ==
    [n |-> n, id |-> shape.id, key |-> shape.key, fields |-> shape.fields]

\* The pages an upstream search answers with: data.get("issues", []).
Pages ==
    UNION {{[i \in 1..k |-> IssueAt(i, f[i])] : f \in [1..k -> IssueShapes]} :
           k \in 0..MaxIssues}

\* The body of a successful GET /rest/api/3/issue/{id}, for the stub at n.
IssueDetail(n, body) ==
    [n |-> n, id |-> TRUE, key |-> "set",
     fields |-> IF body = "conforming" THEN "declared" ELSE "absent"]

\* Issue(**data) succeeds: id, key, self and fields are required.
IssueValid(issue) ==
    issue.id /\ issue.key # "absent" /\ issue.fields # "absent"

\* Issue(**data): the model keeps the declared fields and ignores the rest.
IssueModel(issue) ==
    [issue EXCEPT !.fields = "declared"]

NoResult == [kind |-> "none", total |-> 0, issues |-> <<>>]

\* SearchResult(**result_data): every element of `issues` must be an Issue.
SearchResultValid(result_data) ==
    \A i \in 1..Len(result_data.issues) : IssueValid(result_data.issues[i])

SearchResultModel(result_data) ==
    [kind |-> "SearchResult", total |-> result_data.total,
     issues |-> [i \in 1..Len(result_data.issues) |->
                    IssueModel(result_data.issues[i])]]

(***************************************************************************)
(* Router (app/routers/latest_api.py)                                      *)
(***************************************************************************)
\* Authorization values inbound requests carry.
InboundAuth ==
    {BasicPrefix \o B64Encode(alice \o Colon \o secret), BearerPrefix \o abc123}

SearchEndpoints == {"search", "search/jql"}
\* Handlers whose client method returns nothing and reads no body.
WriteEndpoints == {"issue.put", "transitions.post"}
UpstreamEndpoints ==
    {"serverInfo", "search", "search/jql", "issue.get", "issue.put",
     "transitions.get", "transitions.post", "issue.post", "project",
     "project/{key}"}

\* An inbound request: its route, its Authorization value, the acting user
\* the client method is called with, and how its parameters fare ("valid",
\* "invalid" for the framework, a transition body with no id, a transition
\* that is not an object).
NoRequest ==
    [endpoint |-> "none", authorization |-> <<>>, acting_user |-> <<>>,
     params |-> "none"]

\* Every handler's `except Exception`: the status of the HTTPException it
\* raises in place of whatever it caught.
HandlerStatus(endpoint) ==
    IF endpoint \in {"issue.get", "transitions.get", "project/{key}"}
    THEN 404 ELSE 500

\* The handlers' except clause: any exception becomes an HTTPException.
HandlerExcept(endpoint, exc) ==
    HTTPException(HandlerStatus(endpoint), "failed")

(***************************************************************************)
(* Exception handlers (app/error_handlers.py, registered in app/main.py)   *)
(***************************************************************************)
\* A response: its status, the error-kind tag of its body, and where the
\* text of its body comes from (`message`, or `details` when they are set).
NoResponse == [status_code |-> 0, type |-> "none", detail |-> "none"]
Success == [status_code |-> 200, type |-> "success", detail |-> "none"]

jira_proxy_exception_handler(exc) ==
    [status_code |-> exc.status_code, type |-> exc.class, detail |-> exc.message]
http_exception_handler(exc) ==
    [status_code |-> exc.status_code, type |-> "HTTPException",
     detail |-> exc.message]
\* validation_exception_handler answering with status 400.
validation_exception_handler_400 ==
    [status_code |-> 400, type |-> "ValidationError", detail |-> "exc.errors()"]
validation_exception_handler ==
    [status_code |-> 422, type |-> "ValidationError", detail |-> "exc.errors()"]
httpx_exception_handler(exc) ==
    [status_code |-> exc.status_code, type |-> "JiraAPIError",
     detail |-> "upstream body"]
generic_exception_handler ==
    [status_code |-> 500, type |-> "InternalServerError",
     detail |-> "Internal server error"]

\* The handler the application picks for an exception leaving a route.
ExceptionHandler(exc) ==
    IF exc.class \in JiraProxyExceptions THEN jira_proxy_exception_handler(exc)
    ELSE IF exc.class = "HTTPException" THEN http_exception_handler(exc)
    ELSE IF exc.class = "RequestValidationError" THEN validation_exception_handler
    ELSE IF exc.class = "HTTPStatusError" THEN httpx_exception_handler(exc)
    ELSE generic_exception_handler

(***************************************************************************)
(* Middleware (app/middleware.py, added in app/main.py)                    *)
(***************************************************************************)
\* LoggingMiddleware.dispatch leaving out the processing-time header.
LoggingMiddlewareNoProcessTime(headers) == headers \cup {"X-Request-ID"}

\* LoggingMiddleware.dispatch, after call_next returned a response.
LoggingMiddleware(headers) == headers \cup {"X-Request-ID", "X-Process-Time"}

\* SecurityHeadersMiddleware.dispatch
SecurityHeadersMiddleware(headers) ==
    headers \cup {"X-Content-Type-Options", "X-Frame-Options", "X-XSS-Protection",
                  "Referrer-Policy"}

\* The handlers registered for an exception class other than Exception run
\* inside the added middleware, so that their response, like a route's,
\* returns through it.  The handler registered for Exception runs outside:
\* the exception passes through the middleware, whose except clause raises
\* it again, and the response is rendered without their headers.
SentHeaders(exc) ==
    IF exc.class \in JiraProxyExceptions
                        \cup {"none", "HTTPException", "RequestValidationError",
                              "HTTPStatusError"}
    THEN SecurityHeadersMiddleware(LoggingMiddleware({}))
    ELSE {}

(***************************************************************************)
(* State machine                                                           *)
(***************************************************************************)
\* The locals of a task that is not handling a request.
IdleTask ==
    [pc |-> "idle", request |-> NoRequest, inflight |-> NoCall, calls |-> <<>>,
     upstream |-> NoOutcome, raised |-> NoError, page |-> <<>>, idx |-> 0,
     full_issues |-> <<>>, caught |-> NoError, result |-> NoResult,
     response |-> NoResponse, response_headers |-> {}, completed |-> 0]

\* The locals of the running task.
RunningTask ==
    [pc |-> pc, request |-> request, inflight |-> inflight, calls |-> calls,
     upstream |-> upstream, raised |-> raised, page |-> page, idx |-> idx,
     full_issues |-> full_issues, caught |-> caught, result |-> result,
     response |-> response, response_headers |-> response_headers,
     completed |-> completed]

\* What the tasks share: the settings and the client instance (and, for the
\* running task, the other task's locals, which it cannot name).
shared == <<settings, jira_client, parked>>

\* The variables of app/utils.py, which no route touches.
utils == <<header_value, extracted>>

Init ==
    /\ settings \in Settings
    /\ jira_client = JiraClient(settings)
    /\ pc = "idle"
    /\ request = NoRequest
    /\ inflight = NoCall
    /\ calls = <<>>
    /\ upstream = NoOutcome
    /\ raised = NoError
    /\ page = <<>>
    /\ idx = 0
    /\ full_issues = <<>>
    /\ caught = NoError
    /\ result = NoResult
    /\ response = NoResponse
    /\ response_headers = {}
    /\ completed = 0
    /\ parked = IdleTask
    /\ header_value = <<>>
    /\ extracted = NotCalled

\* A client method is called with acting_user and awaits its first upstream
\* call.
BeginAs(endpoint, authorization, method, path, acting_user) ==
    /\ pc = "idle"
    /\ request' = [endpoint |-> endpoint, authorization |-> authorization,
                   acting_user |-> acting_user, params |-> "valid"]
    /\ inflight' = UpstreamCall(settings, method, path, authorization, acting_user, 0)
    /\ calls' = <<inflight'>>
    /\ pc' = "await"
    /\ UNCHANGED <<utils, shared, upstream, raised, page, idx, full_issues, caught,
                   result, response, response_headers, completed>>

\* A handler calls its client method, which awaits its first upstream call.
\* No handler passes an acting user.
Begin(endpoint, authorization, method, path) ==
    BeginAs(endpoint, authorization, method, path, NoUser)

\* A request ends without a client call: exc is what the handler caught (if
\* it ran and caught anything), left what leaves the route.
EndLocally(endpoint, authorization, params, resp, exc, left) ==
    /\ pc = "idle"
    /\ request' = [endpoint |-> endpoint, authorization |-> authorization,
                   acting_user |-> NoUser, params |-> params]
    /\ caught' = exc
    /\ response' = resp
    /\ response_headers' = SentHeaders(left)
    /\ pc' = "done"
    /\ UNCHANGED <<utils, shared, inflight, calls, upstream, raised, page, idx,
                   full_issues, result, completed>>

get_server_info ==
    pc = "idle" /\ \E a \in InboundAuth : Begin("serverInfo", a, "GET", "/rest/api/2/serverInfo")

search_issues ==
    pc = "idle" /\ \E a \in InboundAuth : Begin("search", a, "GET", "/rest/api/3/search/jql")

search_issues_jql ==
    pc = "idle" /\ \E a \in InboundAuth : Begin("search/jql", a, "GET", "/rest/api/3/search/jql")

get_issue ==
    pc = "idle" /\ \E a \in InboundAuth : Begin("issue.get", a, "GET", "/rest/api/2/issue/{issue_key}")

update_issue ==
    pc = "idle" /\ \E a \in InboundAuth : Begin("issue.put", a, "PUT", "/rest/api/2/issue/{issue_key}")

get_issue_transitions ==
    pc = "idle" /\ \E a \in InboundAuth :
        Begin("transitions.get", a, "GET", "/rest/api/2/issue/{issue_key}/transitions")

\* The `transition` member of the body of POST .../transitions: an object
\* with an id, an object without one (or with an empty one, or no member at
\* all), or a value that is not an object.
TransitionBodies == {"id", "no id", "not an object"}

\* transition_data.get("transition", {}).get("id") on a value that is not
\* an object.
AttributeError ==
    [class |-> "AttributeError", status_code |-> 0, message |-> "no attribute 'get'"]

\* transition_issue: a body without a transition id raises HTTPException(400),
\* which `except HTTPException: raise` lets through; a transition that is
\* not an object raises AttributeError, which `except Exception` catches.
transition_issue ==
    pc = "idle" /\ \E a \in InboundAuth, transition \in TransitionBodies :
        IF transition = "id"
        THEN Begin("transitions.post", a, "POST",
                   "/rest/api/2/issue/{issue_key}/transitions")
        ELSE IF transition = "no id"
        THEN EndLocally("transitions.post", a, "no transition id",
                        ExceptionHandler(HTTPException(400, "Transition ID is required")),
                        HTTPException(400, "Transition ID is required"),
                        HTTPException(400, "Transition ID is required"))
        ELSE EndLocally("transitions.post", a, "transition not an object",
                        ExceptionHandler(HandlerExcept("transitions.post", AttributeError)),
                        AttributeError,
                        HandlerExcept("transitions.post", AttributeError))

create_issue ==
    pc = "idle" /\ \E a \in InboundAuth : Begin("issue.post", a, "POST", "/rest/api/2/issue")

get_projects ==
    pc = "idle" /\ \E a \in InboundAuth : Begin("project", a, "GET", "/rest/api/2/project")

get_project ==
    pc = "idle" /\ \E a \in InboundAuth : Begin("project/{key}", a, "GET", "/rest/api/2/project/{project_key}")

health_check ==
    pc = "idle" /\ EndLocally("health", <<>>, "valid", Success, NoError, NoError)

\* fastapi.exceptions.RequestValidationError
RequestValidationError ==
    [class |-> "RequestValidationError", status_code |-> 0, message |-> "invalid"]

\* The framework rejects a request that lacks a required parameter (the
\* Authorization header, jql, a body) or carries an ill-typed one before
\* any handler runs.
RequestValidation ==
    pc = "idle" /\ \E e \in UpstreamEndpoints :
        EndLocally(e, <<>>, "invalid", ExceptionHandler(RequestValidationError),
                   NoError, RequestValidationError)

\* The handler's except clause caught exc: the response is the rendering of
\* what the clause raises.
Fails(exc) ==
    /\ caught' = exc
    /\ result' = NoResult
    /\ response' = ExceptionHandler(HandlerExcept(request.endpoint, exc))
    /\ response_headers' = SentHeaders(HandlerExcept(request.endpoint, exc))

Succeeds(value) ==
    /\ caught' = NoError
    /\ result' = value
    /\ response' = Success
    /\ response_headers' = SentHeaders(NoError)

\* The first (for all but a reduced-form search, the only) upstream call of
\* a request ends: in an error for any endpoint, or in a 2xx for an endpoint
\* other than search.  A handler with a response model builds it from the
\* body; update_issue and transition_issue read no body.
CallReturns ==
    /\ pc = "await"
    /\ inflight.stub = 0
    /\ \E o \in Outcomes :
        /\ request.endpoint \in SearchEndpoints => MakeRequest(o) # Returned
        /\ upstream' = o
        /\ raised' = MakeRequest(o)
        /\ IF MakeRequest(o) # Returned THEN Fails(MakeRequest(o))
           ELSE IF request.endpoint \in WriteEndpoints \/ o.body = "conforming"
                THEN Succeeds([kind |-> "ok", total |-> 0, issues |-> <<>>])
                ELSE Fails(ModelValidationError)
    /\ inflight' = NoCall
    /\ completed' = completed + 1
    /\ pc' = "done"
    /\ UNCHANGED <<utils, shared, request, calls, page, idx, full_issues>>

\* `"id" in issue` and `not issue_key`: the stub gets a secondary fetch.
NeedsFetch(stub) == stub.id /\ stub.key # "set"

\* The loop resuming at the stub it has just fetched.
NextFetchAgain(p, from) ==
    IF from > 1 THEN from - 1
    ELSE IF \E j \in from..Len(p) : NeedsFetch(p[j])
    THEN CHOOSE j \in from..Len(p) :
            NeedsFetch(p[j]) /\ \A k \in from..(j - 1) : ~NeedsFetch(p[k])
    ELSE Len(p) + 1

\* The loop taking the stubs from the end of the page.
NextFetchLast(p, from) ==
    IF \E j \in from..Len(p) : NeedsFetch(p[j])
    THEN CHOOSE j \in from..Len(p) :
            NeedsFetch(p[j]) /\ \A k \in (j + 1)..Len(p) : ~NeedsFetch(p[k])
    ELSE Len(p) + 1

\* The first stub at or after position `from` that gets a secondary fetch;
\* Len(p) + 1 when there is none.
NextFetch(p, from) ==
    IF \E j \in from..Len(p) : NeedsFetch(p[j])
    THEN CHOOSE j \in from..Len(p) :
            NeedsFetch(p[j]) /\ \A k \in from..(j - 1) : ~NeedsFetch(p[k])
    ELSE Len(p) + 1

\* The reduced-form test taking every non-empty page for reduced.
IsReducedAnyPage(issues) == Len(issues) > 0

\* search_issues: `issues and isinstance(issues[0], dict) and "fields" not in
\* issues[0]`, the test for a reduced-form page.
IsReduced(issues) == Len(issues) > 0 /\ issues[1].fields = "absent"

\* search_issues, from result_data to the handler's response.
Assemble(p, issues_out) ==
    LET result_data == [total |-> Len(p), issues |-> issues_out]
    IN  /\ inflight' = NoCall
        /\ calls' = calls
        /\ pc' = "done"
        /\ IF SearchResultValid(result_data)
           THEN Succeeds(SearchResultModel(result_data))
           ELSE Fails(ModelValidationError)

\* search_issues, the loop over the stubs of a reduced-form page p from
\* position `from` on with full_issues = full: stubs that get no fetch add
\* nothing to full_issues; the loop stops at the next fetch, or ends.
SearchLoop(p, full, from) ==
    LET j == NextFetch(p, from)
    IN  /\ idx' = j
        /\ full_issues' = full
        /\ IF j <= Len(p)
           THEN /\ inflight' = UpstreamCall(settings, "GET", "/rest/api/3/issue/{id}",
                                            request.authorization,
                                            request.acting_user, j)
                /\ calls' = Append(calls, inflight')
                /\ pc' = "await"
                /\ UNCHANGED <<caught, result, response, response_headers>>
           ELSE Assemble(p, full)

\* search_issues: the search call returned the page p.
SearchReturns ==
    /\ pc = "await"
    /\ inflight.stub = 0
    /\ request.endpoint \in SearchEndpoints
    /\ upstream' = [kind |-> "status", code |-> 200, body |-> "conforming"]
    /\ raised' = Returned
    /\ completed' = completed + 1
    /\ \E p \in Pages :
        /\ page' = p
        /\ IF IsReduced(p)
           THEN SearchLoop(p, <<>>, 1)
           ELSE /\ idx' = idx
                /\ full_issues' = full_issues
                /\ Assemble(p, p)
    /\ UNCHANGED <<utils, shared, request>>

\* search_issues: the secondary fetch for the stub at idx ended.  The bare
\* `except:` catches whatever _make_request raised.
FetchReturns ==
    /\ pc = "await"
    /\ inflight.stub > 0
    /\ completed' = completed + 1
    /\ \E o \in Outcomes :
        /\ upstream' = o
        /\ raised' = MakeRequest(o)
        /\ SearchLoop(page,
                      IF MakeRequest(o) = Returned
                      THEN Append(full_issues, IssueDetail(idx, o.body))
                      ELSE Append(full_issues, page[idx]),
                      idx + 1)
    /\ UNCHANGED <<utils, shared, request, page>>

\* The response is sent while the calls of the request stay behind, as they
\* would in a record kept on the client instance.
DeliverKeepingCalls ==
    /\ pc = "done"
    /\ pc' = IdleTask.pc
    /\ request' = IdleTask.request
    /\ inflight' = IdleTask.inflight
    /\ calls' = calls
    /\ upstream' = IdleTask.upstream
    /\ raised' = IdleTask.raised
    /\ page' = IdleTask.page
    /\ idx' = IdleTask.idx
    /\ full_issues' = IdleTask.full_issues
    /\ caught' = IdleTask.caught
    /\ result' = IdleTask.result
    /\ response' = IdleTask.response
    /\ response_headers' = IdleTask.response_headers
    /\ completed' = IdleTask.completed
    /\ UNCHANGED <<utils, shared>>

\* The response is sent and the task ends: nothing of the request is kept.
Deliver ==
    /\ pc = "done"
    /\ pc' = IdleTask.pc
    /\ request' = IdleTask.request
    /\ inflight' = IdleTask.inflight
    /\ calls' = IdleTask.calls
    /\ upstream' = IdleTask.upstream
    /\ raised' = IdleTask.raised
    /\ page' = IdleTask.page
    /\ idx' = IdleTask.idx
    /\ full_issues' = IdleTask.full_issues
    /\ caught' = IdleTask.caught
    /\ result' = IdleTask.result
    /\ response' = IdleTask.response
    /\ response_headers' = IdleTask.response_headers
    /\ completed' = IdleTask.completed
    /\ UNCHANGED <<utils, shared>>

Next ==
    \/ get_server_info
    \/ search_issues
    \/ search_issues_jql
    \/ get_issue
    \/ update_issue
    \/ get_issue_transitions
    \/ transition_issue
    \/ create_issue
    \/ get_projects
    \/ get_project
    \/ health_check
    \/ RequestValidation
    \/ CallReturns
    \/ SearchReturns
    \/ FetchReturns
    \/ Deliver

Spec == Init /\ [][Next]_vars

(***************************************************************************)
(* The client called with an acting user                                   *)
(***************************************************************************)
\* The acting users a caller of the client names: none (None or ""), or a
\* user name.
ActingUsers == {NoUser, alice, svc}

JiraClient_get_server_info ==
    pc = "idle" /\ \E a \in InboundAuth, u \in ActingUsers :
        BeginAs("serverInfo", a, "GET", "/rest/api/2/serverInfo", u)

JiraClient_search_issues ==
    pc = "idle" /\ \E a \in InboundAuth, u \in ActingUsers :
        BeginAs("search", a, "GET", "/rest/api/3/search/jql", u)

JiraClient_get_issue ==
    pc = "idle" /\ \E a \in InboundAuth, u \in ActingUsers :
        BeginAs("issue.get", a, "GET", "/rest/api/2/issue/{issue_key}", u)

JiraClient_get_issue_transitions ==
    pc = "idle" /\ \E a \in InboundAuth, u \in ActingUsers :
        BeginAs("transitions.get", a, "GET",
                "/rest/api/2/issue/{issue_key}/transitions", u)

JiraClient_transition_issue ==
    pc = "idle" /\ \E a \in InboundAuth, u \in ActingUsers :
        BeginAs("transitions.post", a, "POST",
                "/rest/api/2/issue/{issue_key}/transitions", u)

JiraClient_create_issue ==
    pc = "idle" /\ \E a \in InboundAuth, u \in ActingUsers :
        BeginAs("issue.post", a, "POST", "/rest/api/2/issue", u)

JiraClient_update_issue ==
    pc = "idle" /\ \E a \in InboundAuth, u \in ActingUsers :
        BeginAs("issue.put", a, "PUT", "/rest/api/2/issue/{issue_key}", u)

JiraClient_get_projects ==
    pc = "idle" /\ \E a \in InboundAuth, u \in ActingUsers :
        BeginAs("project", a, "GET", "/rest/api/2/project", u)

JiraClient_get_project ==
    pc = "idle" /\ \E a \in InboundAuth, u \in ActingUsers :
        BeginAs("project/{key}", a, "GET", "/rest/api/2/project/{project_key}", u)

ClientNext ==
    \/ JiraClient_get_server_info
    \/ JiraClient_search_issues
    \/ JiraClient_get_issue
    \/ JiraClient_get_issue_transitions
    \/ JiraClient_transition_issue
    \/ JiraClient_create_issue
    \/ JiraClient_update_issue
    \/ JiraClient_get_projects
    \/ JiraClient_get_project
    \/ CallReturns
    \/ SearchReturns
    \/ FetchReturns
    \/ Deliver

ClientSpec == Init /\ [][ClientNext]_vars

(***************************************************************************)
(* Two requests at a time                                                  *)
(***************************************************************************)
\* The event loop suspends the running task and resumes the other one.
Switch ==
    /\ parked' = RunningTask
    /\ pc' = parked.pc
    /\ request' = parked.request
    /\ inflight' = parked.inflight
    /\ calls' = parked.calls
    /\ upstream' = parked.upstream
    /\ raised' = parked.raised
    /\ page' = parked.page
    /\ idx' = parked.idx
    /\ full_issues' = parked.full_issues
    /\ caught' = parked.caught
    /\ result' = parked.result
    /\ response' = parked.response
    /\ response_headers' = parked.response_headers
    /\ completed' = parked.completed
    /\ UNCHANGED <<utils, settings, jira_client>>

ConcurrentNext ==
    \/ get_issue
    \/ update_issue
    \/ transition_issue
    \/ CallReturns
    \/ Deliver
    \/ Switch

ConcurrentSpec == Init /\ [][ConcurrentNext]_vars

(***************************************************************************)
(* Username extraction (app/utils.py)                                      *)
(***************************************************************************)
\* The characters the credentials part of a Basic header is made of: the
\* base64 characters Y, T, p, i, o and /, the padding =, and ! and the
\* space, which are not of the alphabet.
PayloadChars == {89, 84, 112, 105, 111, 47, 61, 33, 32}

Payloads == UNION {[1..k -> PayloadChars] : k \in 0..MaxPayload}

\* The Authorization values the function is called with: none, a bearer
\* token, other schemes, and Basic with every credentials part.
AuthHeaders ==
    {<<>>,
     BearerPrefix \o abc123,
     <<98, 97, 115, 105, 99, 32, 89, 84, 112, 105>>,       \* "basic YTpi"
     <<66, 97, 115, 105, 99>>,                              \* "Basic"
     BasicPrefix \o BasicPrefix \o <<89, 84, 112, 105>>,    \* "Basic Basic YTpi"
     BasicPrefix \o <<55, 97, 67, 65, 79, 103, 61, 61>>}    \* "Basic 7aCAOg=="
    \cup {BasicPrefix \o p : p \in Payloads}

\* User names and tokens a Basic header is made from: "", svc, alice,
\* "a:b" and (in UTF-8) "\u00e9"; "", tok, secret and "x:y".
Usernames == {<<>>, svc, alice, <<97, 58, 98>>, <<195, 169>>}
Tokens == {<<>>, tok, secret, <<120, 58, 121>>}

\* The locals of the running task.
locals ==
    <<pc, request, inflight, calls, upstream, raised, page, idx, full_issues,
      caught, result, response, response_headers, completed>>

UtilsInit ==
    /\ settings = [jira_base_url |-> JiraBaseUrl,
                   jira_service_username |-> <<>>,
                   jira_service_api_token |-> <<>>]
    /\ jira_client = JiraClient(settings)
    /\ pc = IdleTask.pc
    /\ request = IdleTask.request
    /\ inflight = IdleTask.inflight
    /\ calls = IdleTask.calls
    /\ upstream = IdleTask.upstream
    /\ raised = IdleTask.raised
    /\ page = IdleTask.page
    /\ idx = IdleTask.idx
    /\ full_issues = IdleTask.full_issues
    /\ caught = IdleTask.caught
    /\ result = IdleTask.result
    /\ response = IdleTask.response
    /\ response_headers = IdleTask.response_headers
    /\ completed = IdleTask.completed
    /\ parked = IdleTask
    /\ header_value \in AuthHeaders
    /\ extracted = NotCalled

\* create_service_auth_header makes the next header the function is
\* called with.
MakeServiceHeader ==
    /\ \E u \in Usernames, t \in Tokens :
        header_value' = create_service_auth_header(u, t)
    /\ extracted' = NotCalled
    /\ UNCHANGED <<locals, shared>>

extract_username_from_auth_header ==
    /\ extracted = NotCalled
    /\ extracted' = ExtractUsername(header_value)
    /\ UNCHANGED <<header_value, locals, shared>>

UtilsNext ==
    \/ MakeServiceHeader
    \/ extract_username_from_auth_header

UtilsSpec == UtilsInit /\ [][UtilsNext]_vars

(***************************************************************************)
(* Properties                                                              *)
(***************************************************************************)
\* The request has been answered.
Answered == pc = "done"

\* The handler caught what the upstream call executor raised.
ExecutorErrorCaught == Answered /\ caught = raised /\ caught.class # "none"

\* The class of the taxonomy an upstream status is mapped to.
MappedKind(code) ==
    IF code = 400 THEN "JiraValidationError"
    ELSE IF code = 401 THEN "JiraAuthenticationError"
    ELSE IF code = 403 THEN "JiraPermissionError"
    ELSE "JiraNotFoundError"

\* C1: on every endpoint that calls upstream, an upstream 400, 401, 403 or
\* 404 that fails the request is answered with that status and with the
\* mapped error kind: the typed error reaches the HTTP boundary unchanged.
C1_TypedErrorReachesBoundary ==
    (/\ ExecutorErrorCaught
     /\ request.endpoint \in UpstreamEndpoints
     /\ upstream.kind = "status"
     /\ upstream.code \in {400, 401, 403, 404})
    => /\ response.status_code = upstream.code
       /\ response.type = MappedKind(upstream.code)

\* C2: GET issue/{key} whose upstream call returns 404 is answered with
\* status 404 and error kind NotFoundError.
C2_IssueNotFound ==
    (/\ Answered
     /\ request.endpoint = "issue.get"
     /\ upstream.kind = "status"
     /\ upstream.code = 404)
    => /\ response.status_code = 404
       /\ response.type = "JiraNotFoundError"

\* C3: the executor raises AuthenticationError(401) for an upstream 401,
\* PermissionError(403) for 403, NotFoundError(404) for 404 and
\* ValidationError(400) for 400, and nothing else for these statuses.
C3_StatusClassification ==
    (upstream.kind = "status" /\ upstream.code \in {400, 401, 403, 404})
    => /\ raised.class = MappedKind(upstream.code)
       /\ raised.status_code = upstream.code

C3_Witness ==
    /\ upstream.kind = "status"
    /\ upstream.code = 403
    /\ raised.class = "JiraPermissionError"
    /\ raised.status_code = 403

\* C4: an upstream status that is neither 2xx nor 400, 401, 403, 404 and
\* that fails the request is answered with exactly that status.
C4_OtherStatusPreserved ==
    (/\ ExecutorErrorCaught
     /\ upstream.kind = "status"
     /\ ~Is2xx(upstream)
     /\ upstream.code \notin {400, 401, 403, 404})
    => response.status_code = upstream.code

\* The search workflow has run to its end on a reduced-form page.
ReducedSearchDone ==
    /\ Answered
    /\ request.endpoint \in SearchEndpoints
    /\ IsReduced(page)

\* The calls of the request after the first: the secondary fetches.
SecondaryFetches == Len(calls) - 1

\* C5: on a reduced-form page of N stubs the workflow issues at most N
\* secondary fetches and the issues sequence it assembles has length N.
C5_ReducedPageLength ==
    ReducedSearchDone
    => /\ SecondaryFetches <= Len(page)
       /\ Len(full_issues) = Len(page)

\* C6: the total of every SearchResult equals the number of its issues.
C6_TotalIsLength ==
    result.kind = "SearchResult" => result.total = Len(result.issues)

\* A secondary fetch failed: full_issues holds a stub of the page.
SomeFetchFailed ==
    \E i \in 1..Len(full_issues) : full_issues[i] = page[full_issues[i].n]

\* C7: when a secondary fetch fails the stub takes the place of the full
\* issue and the search still succeeds with the page.
C7_PartialSuccess ==
    (ReducedSearchDone /\ SomeFetchFailed)
    => /\ response = Success
       /\ result.kind = "SearchResult"
       /\ \A i \in 1..Len(full_issues) :
            full_issues[i] = page[full_issues[i].n]
            => \E k \in 1..Len(result.issues) : result.issues[k].n = full_issues[i].n

\* Upstream answered the search with a page whose issues all have fields
\* (after a secondary fetch the page is one whose first issue has none).
FullFormSearchDone ==
    /\ Answered
    /\ request.endpoint \in SearchEndpoints
    /\ raised = Returned
    /\ \A i \in 1..Len(page) : page[i].fields # "absent"

C9_FailuresAreConnectionErrors ==
    (upstream.kind \in {"ConnectError", "TimeoutException", "Exception"}
        \/ upstream.body = "empty")
    => /\ raised.class = "JiraConnectionError"
       /\ raised.status_code = 503

C9_Witness ==
    /\ upstream.kind = "Exception"
    /\ raised.class = "JiraConnectionError"
    /\ raised.status_code = 503

\* The service-account username and token are both set.
CredentialsSet ==
    settings.jira_service_username # <<>> /\ settings.jira_service_api_token # <<>>

\* "Basic c3ZjOnRvaw==", that is "Basic " + base64("svc:tok")
BasicSvcTok ==
    <<66, 97, 115, 105, 99, 32, 99, 51, 90, 106, 79, 110, 82, 118, 97, 119, 61, 61>>

\* C10: every upstream call carries an Authorization header built from the
\* configuration alone: "Basic " + base64(u + ":" + t) when both are set,
\* the invalid "Basic " otherwise; and with the pair unset the call is
\* still sent, the request being answered only after upstream's outcome.
C10_ServiceAuthorization ==
    /\ \A i \in 1..Len(calls) :
        calls[i].headers["Authorization"] =
            IF CredentialsSet
            THEN BasicPrefix \o B64Encode(settings.jira_service_username \o Colon
                                          \o settings.jira_service_api_token)
            ELSE BasicPrefix
    /\ (settings.jira_service_username = svc /\ settings.jira_service_api_token = tok)
        => \A i \in 1..Len(calls) : calls[i].headers["Authorization"] = BasicSvcTok
    /\ (pc = "await") => (inflight = calls[Len(calls)])
    /\ (/\ Answered
        /\ ~CredentialsSet
        /\ request.endpoint \in UpstreamEndpoints
        /\ request.params = "valid")
        => /\ Len(calls) >= 1
           /\ calls[1].headers["Authorization"] = BasicPrefix
           /\ upstream # NoOutcome

C10_Witness ==
    /\ ~CredentialsSet
    /\ Answered
    /\ Len(calls) = 1
    /\ calls[1].headers["Authorization"] = BasicPrefix
    /\ upstream.kind = "status"
    /\ upstream.code = 401

\* The proxy rejected the parameters of the request itself: the framework
\* found a required parameter missing or ill-typed, or the handler found no
\* transition id in the body.
RejectedLocally ==
    Answered /\ request.params \in {"invalid", "no transition id"}

UnclassifiedCaught ==
    Answered /\ caught.class \in {"ValidationError", "AttributeError"}

\* C13: an exception the taxonomy does not classify is answered with status
\* 500, and neither its message nor upstream's response text is in the body.
C13_UnclassifiedIsGeneric500 ==
    UnclassifiedCaught
    => /\ response.status_code = 500
       /\ response.detail \notin {caught.message, "upstream body"}

\* C14: for update_issue and transition_issue, an upstream call that ends
\* in a 2xx status, with a JSON body or an empty one, makes the executor
\* return and the proxy answer its success message with status 200.
C14_WriteSucceedsOn2xx ==
    (/\ Answered
     /\ request.endpoint \in WriteEndpoints
     /\ Is2xx(upstream))
    => /\ raised = Returned
       /\ response = Success

\* C15: on a reduced-form page a stub without `id` gets no secondary fetch
\* and stays, as it is, at its position in the issues sequence.
C15_StubWithoutIdKept ==
    ReducedSearchDone
    => \A i \in 1..Len(page) :
        ~page[i].id
        => /\ \A k \in 1..Len(calls) : calls[k].stub # i
           /\ Len(full_issues) >= i
           /\ full_issues[i] = page[i]

\* The upstream calls of the request that have started and not ended.
InFlight == Len(calls) - completed

\* C16: within a search request the secondary fetches are issued one at a
\* time in the order of the stubs: a call starts only when every earlier
\* call of the request has ended, so at most one is in flight; the fetches
\* start after the search call has returned its page; and each fetch is for
\* a stub after the one before it, no stub due a fetch being passed over.
C16_SequentialFetches ==
    /\ InFlight = (IF pc = "await" THEN 1 ELSE 0)
    /\ Len(calls) >= 1 => calls[1].stub = 0
    /\ Len(calls) >= 2
        => /\ request.endpoint \in SearchEndpoints
           /\ completed >= 1
           /\ IsReduced(page)
    /\ \A k \in 2..Len(calls) :
        /\ calls[k].stub \in 1..Len(page)
        /\ calls[k].stub > calls[k - 1].stub
        /\ \A j \in 1..(calls[k].stub - 1) :
            NeedsFetch(page[j]) => \E m \in 2..(k - 1) : calls[m].stub = j

C16_Witness ==
    /\ pc = "await"
    /\ Len(calls) = 3
    /\ completed = 2
    /\ calls[2].stub = 1
    /\ calls[3].stub = 2
    /\ inflight = calls[3]

\* C17: no upstream call is retried.  A request other than a search issues
\* at most one call and a search over a page of N stubs at most 1 + N, no
\* two of them for the same stub; each call ends once; and a failed only
\* call is what the handler catches, with no second attempt.
C17_NoRetry ==
    /\ request.endpoint \notin SearchEndpoints => Len(calls) <= 1
    /\ request.endpoint \in SearchEndpoints => Len(calls) <= 1 + Len(page)
    /\ \A i, j \in 1..Len(calls) : i # j => calls[i].stub # calls[j].stub
    /\ completed <= Len(calls)
    /\ (Answered /\ Len(calls) = 1 /\ raised.class \notin {"return", "none"})
        => /\ caught = raised
           /\ completed = 1

\* The last of two secondary fetches failed and the request was answered
\* after three calls.
C17_Witness ==
    /\ Answered
    /\ request.endpoint \in SearchEndpoints
    /\ Len(page) = 2
    /\ Len(calls) = 3
    /\ completed = 3
    /\ raised.class = "JiraConnectionError"
    /\ upstream.kind = "TimeoutException"

\* The Authorization value the configuration gives.
ServiceAuthorization ==
    IF CredentialsSet
    THEN BasicPrefix \o B64Encode(settings.jira_service_username \o Colon
                                  \o settings.jira_service_api_token)
    ELSE BasicPrefix

\* C18: the headers of an upstream call hold X-Atlassian-User exactly when
\* the call is made with an acting user (one that is neither absent nor
\* empty), its value being that user; Authorization, Content-Type and
\* Accept are there in both cases, with the same values.
C18_ImpersonationHeader ==
    \A i \in 1..Len(calls) :
        LET h == calls[i].headers
        IN  /\ ("X-Atlassian-User" \in DOMAIN h) <=> (request.acting_user # NoUser)
            /\ "X-Atlassian-User" \in DOMAIN h
                => h["X-Atlassian-User"] = request.acting_user
            /\ DOMAIN h \ {"X-Atlassian-User"}
                    = {"Authorization", "Content-Type", "Accept"}
            /\ h["Authorization"] = ServiceAuthorization
            /\ h["Content-Type"] = "application/json"
            /\ h["Accept"] = "application/json"

\* A search made for the acting user alice whose secondary fetch names her.
C18_Witness ==
    /\ request.acting_user = alice
    /\ Len(calls) = 2
    /\ calls[2].stub = 1
    /\ "X-Atlassian-User" \in DOMAIN calls[2].headers
    /\ calls[2].headers["X-Atlassian-User"] = alice

\* The response the request req gets when its only upstream call ends in
\* the outcome o (for a request that ends without a call, o is NoOutcome):
\* a function of the request and of the outcome of its own call.
ResponseFor(req, o) ==
    IF req.params = "no transition id"
    THEN [status_code |-> 400, type |-> "HTTPException",
          detail |-> "Transition ID is required"]
    ELSE IF req.params = "transition not an object"
    THEN [status_code |-> 500, type |-> "HTTPException", detail |-> "failed"]
    ELSE IF Is2xx(o) /\ o.body # "empty"
            /\ (req.endpoint \in WriteEndpoints \/ o.body = "conforming")
    THEN [status_code |-> 200, type |-> "success", detail |-> "none"]
    ELSE [status_code |-> IF req.endpoint = "issue.get" THEN 404 ELSE 500,
          type |-> "HTTPException", detail |-> "failed"]

\* The first upstream call of each route, by the route alone.
MethodOf(endpoint) ==
    IF endpoint = "issue.put" THEN "PUT"
    ELSE IF endpoint \in {"transitions.post", "issue.post"} THEN "POST"
    ELSE "GET"
PathOf(endpoint) ==
    IF endpoint = "serverInfo" THEN "/rest/api/2/serverInfo"
    ELSE IF endpoint \in SearchEndpoints THEN "/rest/api/3/search/jql"
    ELSE IF endpoint \in {"issue.get", "issue.put"}
    THEN "/rest/api/2/issue/{issue_key}"
    ELSE IF endpoint \in {"transitions.get", "transitions.post"}
    THEN "/rest/api/2/issue/{issue_key}/transitions"
    ELSE IF endpoint = "issue.post" THEN "/rest/api/2/issue"
    ELSE IF endpoint = "project" THEN "/rest/api/2/project"
    ELSE "/rest/api/2/project/{project_key}"

\* What holds of one task t whatever the other task does.
TaskIndependent(t) ==
    /\ t.pc = "idle" => t = IdleTask
    /\ Len(t.calls) <= 1
    /\ \A i \in 1..Len(t.calls) :
        /\ t.calls[i].method = MethodOf(t.request.endpoint)
        /\ t.calls[i].path = PathOf(t.request.endpoint)
        /\ t.calls[i].base_url = RStripSlash(settings.jira_base_url)
        /\ t.calls[i].headers["Authorization"] = ServiceAuthorization
    /\ t.pc = "await" => t.response = NoResponse /\ t.upstream = NoOutcome
    /\ t.pc = "done" => t.response = ResponseFor(t.request, t.upstream)

\* A step leaves the configuration and the client instance as they are, and
\* leaves the other task's locals as they are unless it is the event loop
\* exchanging the two tasks.
StepKeepsShared ==
    /\ settings' = settings
    /\ jira_client' = jira_client
    /\ \/ parked' = parked
       \/ parked' = RunningTask /\ RunningTask' = parked

\* C19: with two requests in progress at once, under every interleaving of
\* their steps, the calls and the response of each request are a function
\* of that request, of the configuration and of the outcome of its own
\* call; a step of one request changes neither the configuration nor the
\* other request's state; and a task that has sent its response keeps
\* nothing of the request.
C19_Independent ==
    /\ [](TaskIndependent(RunningTask) /\ TaskIndependent(parked))
    /\ [][StepKeepsShared]_vars

\* Two requests are in progress at once and both have their response, each
\* its own.
C19_Witness ==
    /\ pc = "done"
    /\ parked.pc = "done"
    /\ request.endpoint = "issue.get"
    /\ parked.request.endpoint = "issue.put"
    /\ response.status_code = 404
    /\ parked.response.status_code = 200
    /\ upstream.code = 403
    /\ parked.upstream.code = 200

\* The upstream call the route `endpoint` makes for the stub at position
\* `stub` of its page (0: the route's first call), by the route and the
\* configuration alone.
CallOf(endpoint, stub) ==
    [method |-> IF stub = 0 THEN MethodOf(endpoint) ELSE "GET",
     base_url |-> RStripSlash(settings.jira_base_url),
     path |-> IF stub = 0 THEN PathOf(endpoint) ELSE "/rest/api/3/issue/{id}",
     headers |-> [h \in {"Authorization", "Content-Type", "Accept"} |->
                    IF h = "Authorization" THEN ServiceAuthorization
                    ELSE "application/json"],
     stub |-> stub]

\* C20: the Authorization value of the inbound request has no part in the
\* upstream calls.  Each call of a request is the one its route, the
\* configuration and the stub it is for determine, whatever Authorization
\* the request carries, so that two requests differing in that value alone
\* make the same calls; and no call carries the inbound value.
C20_InboundAuthorizationUnused ==
    \A i \in 1..Len(calls) :
        /\ calls[i] = CallOf(request.endpoint, calls[i].stub)
        /\ DOMAIN calls[i].headers = {"Authorization", "Content-Type", "Accept"}
        /\ calls[i].headers["Authorization"] # request.authorization

\* A search carrying a bearer token has made its search call and a
\* secondary fetch, both under the service account's credentials.
C20_Witness ==
    /\ request.authorization = BearerPrefix \o abc123
    /\ request.endpoint = "search"
    /\ Len(calls) = 2
    /\ calls[1].headers["Authorization"] = BasicSvcTok
    /\ calls[2].headers["Authorization"] = BasicSvcTok

\* "Basic YWxpY2U6c2VjcmV0", that is "Basic " + base64("alice:secret")
BasicAliceSecret ==
    <<66, 97, 115, 105, 99, 32, 89, 87, 120, 112, 89, 50, 85, 54, 99, 50, 86,
      106, 99, 109, 86, 48>>

\* The credentials part of a Basic header as the function reads it.
Credentials == Strip(Remove(header_value, BasicPrefix))

\* The function has been called on header_value.
Called == extracted # NotCalled

\* C21: extract_username_from_auth_header never raises.  For the header
\* create_service_auth_header(u, t) it returns the part of u + ":" + t
\* before the first colon, which is u when u has no colon; for
\* "Basic " + base64("alice:secret") it returns "alice"; for an empty
\* header, a Bearer token, another scheme, credentials that base64 or UTF-8
\* cannot decode, or decoded credentials without a colon it returns None.
C21_ExtractUsername ==
    Called
    => /\ extracted.kind \in {"str", "None"}
       /\ \A u \in Usernames, t \in Tokens :
            header_value = create_service_auth_header(u, t)
            => /\ extracted = Username(BeforeColon(u \o Colon \o t))
               /\ ~HasColon(u) => extracted = Username(u)
       /\ header_value = BasicAliceSecret => extracted = Username(alice)
       /\ (header_value = <<>> \/ ~StartsWith(header_value, BasicPrefix))
            => extracted = NoUsername
       /\ header_value = BearerPrefix \o abc123 => extracted = NoUsername
       /\ (StartsWith(header_value, BasicPrefix) /\ ~b64decode(Credentials).ok)
            => extracted = NoUsername
       /\ (/\ StartsWith(header_value, BasicPrefix)
           /\ b64decode(Credentials).ok
           /\ ~Utf8Valid(b64decode(Credentials).value))
            => extracted = NoUsername
       /\ (/\ StartsWith(header_value, BasicPrefix)
           /\ b64decode(Credentials).ok
           /\ ~HasColon(b64decode(Credentials).value))
            => extracted = NoUsername
       \* "Basic YTpi" is "a:b"; "Basic Y", "Basic /w==" and "Basic YTo"
       \* do not decode; "Basic YT==" is "a".
       /\ header_value = BasicPrefix \o <<89, 84, 112, 105>>
            => extracted = Username(<<97>>)
       /\ header_value \in {BasicPrefix \o <<89>>,
                           BasicPrefix \o <<47, 119, 61, 61>>,
                           BasicPrefix \o <<89, 84, 111>>,
                           BasicPrefix \o <<89, 84, 61, 61>>}
            => extracted = NoUsername

\* The user name comes back from the header made for alice and secret.
C21_Witness ==
    /\ header_value = create_service_auth_header(alice, secret)
    /\ header_value = BasicAliceSecret
    /\ extracted = Username(alice)

====
